---- MODULE Spec2Model ----
(***************************************************************************)
(* A model of myfm/wrapper.py: the MyFMRegressor / MyFMClassifier          *)
(* estimators (construction, fit, predict, predict_proba) and of the       *)
(* pickling round trip exercised by tests/regressions.py.                  *)
(*                                                                         *)
(* The compiled extension `_myfm` (ConfigBuilder, create_train_fm, the FM  *)
(* and hyper-parameter objects and their pickling) is not part of the      *)
(* sources; its behaviour is modelled from the specification and the       *)
(* definitions concerned say so.                                           *)
(*                                                                         *)
(* Numbers: features, weights and factors are small integers, so that the  *)
(* interaction score is exact.  A value of erf is a fixed-point number in  *)
(* units of 1/ErfUnit, a probability one in units of 1/(2*ErfUnit), and a  *)
(* mean over the ensemble is the pair <<sum, count>>.                      *)
(***************************************************************************)
EXTENDS Integers, Sequences, FiniteSets, TLC

\* ---------------------------------------------------------------- bounds
MaxIter == 3            \* n_iter ranges over 1..MaxIter
NFeatures == 2          \* X.shape[1] of the training matrix
Rank == 1               \* the rank given to the constructor
MaxSamples == 2         \* longest ensemble drawn in the prediction specification
MaxFeatureValue == 2    \* feature activations of a prediction input: 0..MaxFeatureValue

\* ------------------------------------------------------ program constants
DefaultSeed == 42       \* random_seed=42
LogEvery == 5           \* the default callback logs when i % 5 = 0

\* Optional values: None, or a one-element sequence.
None == <<>>
Some(x) == <<x>>

\* ------------------------------------------------------------ arithmetic
Abs(n) == IF n < 0 THEN -n ELSE n

RECURSIVE SumTo(_, _)
\* sum of f[1] .. f[n]
SumTo(f, n) == IF n = 0 THEN 0 ELSE SumTo(f, n - 1) + f[n]

\* X.dot(v) for one row x and a vector v
Dot(x, v) == SumTo([j \in 1..Len(x) |-> x[j] * v[j]], Len(x))

\* elem_wise_square, one row
elem_wise_square(x) == [j \in 1..Len(x) |-> x[j] * x[j]]

\* The unit of the fixed-point values of erf.
ErfUnit == 10000

\* erf at an integer argument, in units of 1/ErfUnit (erf(1) = 0.8427,
\* erf(2) = 0.9953, erf(3) = 0.99998, and 1.0 from there on to this precision).
Erf(z) ==
    LET a == Abs(z)
        m == IF a = 0 THEN 0
             ELSE IF a = 1 THEN 8427
             ELSE IF a = 2 THEN 9953
             ELSE ErfUnit
    IN IF z < 0 THEN -m ELSE m

\* np.sqrt(alpha / 2) for the precisions the sampler model draws (2 and 8)
SqrtHalf(alpha) == IF alpha = 8 THEN 2 ELSE 1

\* ------------------------------------------------- samples and the sampler
\* The generator of the trainer: a linear congruential generator of period
\* RngMod, seeded from the configured random seed.
RngMod == 8
SeedRng(seed) == seed % RngMod
NextRng(r) == (5 * r + 3) % RngMod

\* One parameter sample {w0, w, V} drawn at generator state r.
DrawFM(r) ==
    [w0 |-> (r % 3) - 1,
     w  |-> [j \in 1..NFeatures |-> ((r + j) % 3) - 1],
     V  |-> [j \in 1..NFeatures |-> [f \in 1..Rank |-> (((r \div 2) + j + f) % 3) - 1]]]

\* One hyper-parameter sample drawn at generator state r: the noise precision
\* alpha and, for ordered probit, the strictly increasing cut-points.
DrawHyper(task, r) ==
    [alpha |-> IF r % 2 = 0 THEN 2 ELSE 8,
     cutpoints |-> IF task = "ORDERED" THEN <<(r % 2) - 1, (r % 2) + ((r \div 4) % 2)>>
                   ELSE <<>>]

\* --------------------------------------------------------------- prediction
\* MyFMRegressor.process_score / MyFMClassifier.process_score
process_score(cls, y, hyper) ==
    IF cls = "MyFMClassifier"
    THEN ErfUnit + Erf(y * SqrtHalf(hyper.alpha))   \* (1 + erf(..)) / 2, in 1/(2*ErfUnit)
    ELSE y

\* The raw interaction score of one row x under one parameter sample.
RawScore(fm, x, x_2) ==
    LET sqt == [j \in 1..Len(x) |->
                   SumTo([f \in 1..Rank |-> fm.V[j][f] * fm.V[j][f]], Rank)]
        xv  == [f \in 1..Rank |-> Dot(x, [j \in 1..Len(x) |-> fm.V[j][f]])]
        sq  == SumTo([f \in 1..Rank |-> xv[f] * xv[f]], Rank)
    IN ((sq - Dot(x_2, sqt)) \div 2) + Dot(x, fm.w) + fm.w0

\* MyFMRegressor._predict_score_point, one row
_predict_score_point(cls, fm, hyper, x, x_2) ==
    process_score(cls, RawScore(fm, x, x_2), hyper)

Min(a, b) == IF a < b THEN a ELSE b

RECURSIVE SumOverZip_first_hyper(_, _, _, _, _)
\* SumOverZip, were every sample scored with the first hyper-parameter sample
SumOverZip_first_hyper(cls, fms, hypers, x, k) ==
    IF k = 0 THEN 0
    ELSE SumOverZip_first_hyper(cls, fms, hypers, x, k - 1)
         + _predict_score_point(cls, fms[k], hypers[1], x, elem_wise_square(x))

RECURSIVE SumOverZip(_, _, _, _, _)
\* the loop over zip(self.fms_, self.hypers_): the sum over its first k pairs
SumOverZip(cls, fms, hypers, x, k) ==
    IF k = 0 THEN 0
    ELSE SumOverZip(cls, fms, hypers, x, k - 1)
         + _predict_score_point(cls, fms[k], hypers[k], x, elem_wise_square(x))

NoSample == "RuntimeError: No available sample."

\* _predict_score_mean without its guard on the empty ensemble
_predict_score_mean_unguarded(obj, X) ==
    [err |-> "",
     value |-> [i \in 1..Len(X) |->
                  <<SumOverZip(obj.cls, obj.fms_, obj.hypers_, X[i],
                               Min(Len(obj.fms_), Len(obj.hypers_))),
                    Len(obj.fms_)>>]]

\* MyFMRegressor._predict_score_mean: an error, or for every row of X the mean
\* <<sum, count>> over the ensemble.
_predict_score_mean(obj, X) ==
    IF Len(obj.fms_) = 0
    THEN [err |-> NoSample, value |-> <<>>]
    ELSE [err |-> "",
          value |-> [i \in 1..Len(X) |->
                       <<SumOverZip(obj.cls, obj.fms_, obj.hypers_, X[i],
                                    Min(Len(obj.fms_), Len(obj.hypers_))),
                         Len(obj.fms_)>>]]

\* mean > 0.5, the mean being sum / (count * 2 * ErfUnit)
OverHalf(m) == m[1] > m[2] * ErfUnit

\* MyFMRegressor.predict / MyFMClassifier.predict
predict(obj, X) ==
    LET r == _predict_score_mean(obj, X)
    IN IF obj.cls = "MyFMClassifier" /\ r.err = ""
       THEN [r EXCEPT !.value = [i \in 1..Len(X) |-> OverHalf(r.value[i])]]
       ELSE r

\* Ordered probit, one sample: the probability of category c (1 .. number of
\* cut-points + 1) at scaled score z, the difference of the normal CDF at the
\* adjacent cut-points, in units of 1/(2*ErfUnit)
CategoryProbability(c, z, cutpoints) ==
    LET upper == IF c > Len(cutpoints) THEN 2 * ErfUnit
                 ELSE ErfUnit + Erf(cutpoints[c] - z)
        lower == IF c = 1 THEN 0 ELSE ErfUnit + Erf(cutpoints[c - 1] - z)
    IN upper - lower

RECURSIVE SumOfCategory(_, _, _, _, _)
\* the sum over the first k samples of the probability of category c at row x
SumOfCategory(fms, hypers, x, c, k) ==
    IF k = 0 THEN 0
    ELSE SumOfCategory(fms, hypers, x, c, k - 1)
         + CategoryProbability(c,
              RawScore(fms[k], x, elem_wise_square(x)) * SqrtHalf(hypers[k].alpha),
              hypers[k].cutpoints)

\* MyFMOrderedProbit.predict_proba: for every row the mean probability of
\* every category
ordered_predict_proba(obj, X) ==
    IF Len(obj.fms_) = 0
    THEN [err |-> NoSample, value |-> <<>>]
    ELSE [err |-> "",
          value |-> [i \in 1..Len(X) |->
                       [c \in 1..(IF Len(obj.hypers_) = 0 THEN 0
                                  ELSE Len(obj.hypers_[1].cutpoints) + 1) |->
                          <<SumOfCategory(obj.fms_, obj.hypers_, X[i], c,
                                          Min(Len(obj.fms_), Len(obj.hypers_))),
                            Len(obj.fms_)>>]]]

\* MyFMClassifier.predict_proba / MyFMOrderedProbit.predict_proba
predict_proba(obj, X) ==
    IF obj.cls = "MyFMOrderedProbit" THEN ordered_predict_proba(obj, X)
    ELSE _predict_score_mean(obj, X)

\* ------------------------------------------------------------------ pickling
RECURSIVE Concat(_)
Concat(ss) == IF ss = <<>> THEN <<>> ELSE Head(ss) \o Concat(Tail(ss))

\* The attributes pickle saves: those __init__ and fit store on the instance
\* (the class is saved by reference).
PickledAttributes_without_hypers(obj) ==
    [cls |-> obj.cls, rank |-> obj.rank, random_seed |-> obj.random_seed,
     group_index |-> obj.group_index, fms_ |-> obj.fms_, hypers_ |-> <<>>]
PickledAttributes(obj) ==
    [cls |-> obj.cls, rank |-> obj.rank, random_seed |-> obj.random_seed,
     group_index |-> obj.group_index, fms_ |-> obj.fms_, hypers_ |-> obj.hypers_]

\* One parameter sample as numbers: its sizes, w0, w, and V row by row.
EncodeFM(fm) ==
    <<Len(fm.w), Len(fm.V[1]), fm.w0>> \o fm.w \o Concat(fm.V)

\* One hyper-parameter sample as numbers: alpha, then the cut-points.
EncodeHyper(h) == <<h.alpha, Len(h.cutpoints)>> \o h.cutpoints

\* pickle.dumps: the attributes as one sequence
Dumps(attrs) ==
    <<attrs.cls, attrs.rank, attrs.random_seed>>
    \o (IF attrs.group_index = None THEN <<0>>
        ELSE <<1, Len(attrs.group_index[1])>> \o attrs.group_index[1])
    \o <<Len(attrs.fms_)>>
    \o Concat([k \in 1..Len(attrs.fms_) |-> EncodeFM(attrs.fms_[k])])
    \o <<Len(attrs.hypers_)>>
    \o Concat([k \in 1..Len(attrs.hypers_) |-> EncodeHyper(attrs.hypers_[k])])

\* The parameter sample that starts at position p of b, and where it ends.
DecodeFM(b, p) ==
    LET F == b[p]
        R == b[p + 1]
    IN [item |-> [w0 |-> b[p + 2],
                  w  |-> [j \in 1..F |-> b[p + 2 + j]],
                  V  |-> [j \in 1..F |->
                            [f \in 1..R |-> b[p + 2 + F + (j - 1) * R + f]]]],
        next |-> p + 3 + F + F * R]

\* The hyper-parameter sample that starts at position p of b, and where it ends.
DecodeHyper(b, p) ==
    [item |-> [alpha |-> b[p],
               cutpoints |-> [c \in 1..b[p + 1] |-> b[p + 1 + c]]],
     next |-> p + 2 + b[p + 1]]

RECURSIVE DecodeFMs(_, _, _)
\* n parameter samples from position p on
DecodeFMs(b, p, n) ==
    IF n = 0 THEN [items |-> <<>>, next |-> p]
    ELSE LET d == DecodeFM(b, p)
             rest == DecodeFMs(b, d.next, n - 1)
         IN [items |-> <<d.item>> \o rest.items, next |-> rest.next]

RECURSIVE DecodeHypers(_, _, _)
\* n hyper-parameter samples from position p on
DecodeHypers(b, p, n) ==
    IF n = 0 THEN [items |-> <<>>, next |-> p]
    ELSE LET d == DecodeHyper(b, p)
             rest == DecodeHypers(b, d.next, n - 1)
         IN [items |-> <<d.item>> \o rest.items, next |-> rest.next]

\* pickle.loads: an instance with the attributes read back (__init__ is not run)
Loads(b) ==
    LET g   == IF b[4] = 0 THEN [item |-> None, next |-> 5]
               ELSE [item |-> Some([j \in 1..b[5] |-> b[5 + j]]), next |-> 6 + b[5]]
        fms == DecodeFMs(b, g.next + 1, b[g.next])
        hyp == DecodeHypers(b, fms.next + 1, b[fms.next])
    IN [cls |-> b[1], rank |-> b[2], random_seed |-> b[3], group_index |-> g.item,
        config_builder |-> [task_type |-> "", options |-> {}, groups |-> <<>>,
                            n_iter |-> 0, n_kept_samples |-> 0],
        fms_ |-> fms.items, hypers_ |-> hyp.items]

\* -------------------------------------------------------------------- state
VARIABLES
    pc,            \* "start", "ctor_failed", "idle" (an instance exists, no call
                   \* is running), "training" (fit is inside create_train_fm) or
                   \* "returning" (fit has finished and is handing over to its caller)
    self,          \* the instance: cls, rank, init_stdev, random_seed,
                   \* group_index, config_builder, fms_, hypers_
    call,          \* the arguments and locals of the running fit
    pbar,          \* the progress bar of the running fit
    trainer,       \* the run of create_train_fm of the running fit
    result,        \* what the last finished operation returned or raised
    trained_with,  \* the training inputs that produced the stored ensemble
    keep_first,    \* whether the trainer keeps a sample before it calls back
    prediction_1,  \* the pickling test: the prediction before the round trip
    prediction_2   \* the pickling test: the prediction after the round trip

vars == <<pc, self, call, pbar, trainer, result, trained_with, keep_first,
          prediction_1, prediction_2>>

\* ------------------------------------------------------------------- inputs
Classes == {"MyFMRegressor", "MyFMClassifier"}
Seeds == {DefaultSeed}

KnownOptions == {"alpha_0", "beta_0", "gamma_0", "mu_0", "reg_0"}

\* **learning_configs: the sets of keyword names a caller passes
OptionSets == {{"alpha_0"}, {"group_index"}, {"alpha_0", "lambda_0"}}

\* group indices: one of the length of the feature count, one that is longer
GroupIndexFitting == [j \in 1..NFeatures |-> 0]
GroupIndexTooLong == [j \in 1..(NFeatures + 1) |-> 0]
GroupIndices == {GroupIndexFitting, GroupIndexTooLong}

\* X_test: absent, a matrix like X, an object csr_matrix rejects, or a matrix
\* whose column count differs from that of X.  y_test: absent or an array.
XTests == {"None", "matrix", "unconvertible", "wrong_shape"}
YTests == {"None", "array"}

\* A caller's callback: it returns True at its stop_at-th call, raises at its
\* raise_at-th call (0: never), and returns False otherwise.
UserCallbacks ==
    {[stop_at |-> k, raise_at |-> 0] : k \in 0..MaxIter}
    \cup {[stop_at |-> 0, raise_at |-> k] : k \in 1..MaxIter}

Callbacks == {None} \cup {Some(c) : c \in UserCallbacks}

\* ------------------------------------------------------------- construction
NoCall == [X_test |-> "None", y_test |-> "None", n_iter |-> 0, n_kept_samples |-> 0,
           group_index |-> None, callback |-> None, do_test |-> FALSE]
NoPbar == [state |-> "None", n |-> 0]
NoTrainer == [status |-> "none", iter |-> 0, cb_calls |-> 0, rng |-> 0,
              config |-> [n_iter |-> 0, n_kept_samples |-> 0, groups |-> <<>>,
                          task_type |-> "", options |-> {}],
              seed |-> 0, fms |-> <<>>, hypers |-> <<>>, kept_at |-> <<>>, err |-> ""]
NoResult == [op |-> "none", err |-> "", value |-> <<>>, args |-> <<>>]
NoSelf == [cls |-> "", rank |-> 0, random_seed |-> 0, group_index |-> None,
           config_builder |-> [task_type |-> "", options |-> {}, groups |-> <<>>,
                               n_iter |-> 0, n_kept_samples |-> 0],
           fms_ |-> <<>>, hypers_ |-> <<>>]

Init ==
    /\ pc = "start"
    /\ self = NoSelf
    /\ call = NoCall
    /\ pbar = NoPbar
    /\ trainer = NoTrainer
    /\ result = NoResult
    /\ trained_with = None
    /\ keep_first \in BOOLEAN
    /\ prediction_1 = <<>>
    /\ prediction_2 = <<>>

\* The keyword names __init__ rejects.
UnknownOptions(options) == options \ (KnownOptions \cup {"group_index"})

\* set_tasktype of the class
TaskTypeOf(cls) ==
    IF cls = "MyFMClassifier" THEN "CLASSIFICATION"
    ELSE IF cls = "MyFMOrderedProbit" THEN "ORDERED"
    ELSE "REGRESSION"

\* MyFMRegressor.__init__
New(cls, seed, options, gi) ==
    /\ pc = "start"
    /\ IF UnknownOptions(options) # {}
       THEN /\ pc' = "ctor_failed"
            /\ self' = self
            /\ result' = [NoResult EXCEPT !.op = "__init__", !.args = options,
                             !.err = "RuntimeError: Got unknown keyword argument"]
       ELSE /\ pc' = "idle"
            /\ self' = [cls |-> cls, rank |-> Rank, random_seed |-> seed,
                        group_index |-> IF "group_index" \in options THEN Some(gi) ELSE None,
                        config_builder |-> [task_type |-> TaskTypeOf(cls),
                                            options |-> options \cap KnownOptions,
                                            groups |-> <<>>, n_iter |-> 0,
                                            n_kept_samples |-> 0],
                        fms_ |-> <<>>, hypers_ |-> <<>>]
            /\ result' = [NoResult EXCEPT !.op = "__init__", !.args = options]
    /\ UNCHANGED <<call, pbar, trainer, trained_with, keep_first, prediction_1, prediction_2>>

\* ---------------------------------------------------------------------- fit
HeldOutError == "RuntimeError: Must specify X_test and y_test."
GroupIndexError == "AssertionError"
ConfigError == "InvalidConfiguration"
ConversionError == "TypeError: held-out data"
CallbackError == "Exception raised by the callback"
NumericError == "NumericInstability"

\* do_test, were fit to test the pair with "or": a half-given pair is accepted
do_test_lenient(X_test, y_test) ==
    IF X_test = "None" /\ y_test = "None" THEN "False" ELSE "True"

\* fit, the held-out pair: do_test, or "raise" for a pair given by half
do_test(X_test, y_test) ==
    IF X_test = "None" /\ y_test = "None" THEN "False"
    ELSE IF X_test # "None" /\ y_test # "None" THEN "True"
    ELSE "raise"

\* fit, the assertion on self.group_index (n_cols is X.shape[1])
GroupIndexAccepted(self_group_index, n_cols) ==
    self_group_index = None \/ Len(self_group_index[1]) = n_cols

\* Configure, were fit to give n_iter for n_kept_samples too
Configure_keeps_all(builder, self_group_index, fit_group_index, n_cols, n_iter, n_kept_samples) ==
    [builder EXCEPT
        !.groups = IF self_group_index # None THEN self_group_index[1]
                   ELSE [j \in 1..n_cols |-> 0],
        !.n_iter = n_iter,
        !.n_kept_samples = n_iter]

\* fit, the settings it gives the builder: the groups of the instance (the
\* group_index argument of fit is never read), n_iter and n_kept_samples
Configure(builder, self_group_index, fit_group_index, n_cols, n_iter, n_kept_samples) ==
    [builder EXCEPT
        !.groups = IF self_group_index # None THEN self_group_index[1]
                   ELSE [j \in 1..n_cols |-> 0],
        !.n_iter = n_iter,
        !.n_kept_samples = n_kept_samples]

\* ConfigBuilder.build: the configuration, refused when more samples are to be
\* kept than iterations run
BuildAccepts(builder) == builder.n_kept_samples <= builder.n_iter
Build(builder) ==
    [n_iter |-> builder.n_iter, n_kept_samples |-> builder.n_kept_samples,
     groups |-> builder.groups, task_type |-> builder.task_type,
     options |-> builder.options]

\* fit with callback None: the conversion of the held-out pair (csr_matrix
\* raises on an object it cannot convert)
HeldOutConverts(X_test) == X_test # "unconvertible"

\* fit: a progress bar is opened when no callback is given
OpensPbar(callback) == callback = None

\* SeedOf, were the seed to move on with the samples already stored
SeedOf_advancing(obj) == obj.random_seed + Len(obj.fms_)

\* The seed fit hands to create_train_fm
SeedOf(obj) == obj.random_seed

\* create_train_fm on entry: the generator seeded, nothing sampled yet
StartTrainer(config, seed) ==
    [NoTrainer EXCEPT !.status = "running", !.config = config,
                      !.seed = seed, !.rng = SeedRng(seed)]

FitRaises(err) ==
    /\ pc' = "returning"
    /\ trainer' = NoTrainer
    /\ result' = [NoResult EXCEPT !.op = "fit", !.err = err]

\* MyFMRegressor.fit, from its entry to the call of create_train_fm
FitEnter(X_test, y_test, n_iter, n_kept_samples, group_index, callback) ==
    /\ pc = "idle"
    /\ LET dt == do_test(X_test, y_test)
           args == [X_test |-> X_test, y_test |-> y_test, n_iter |-> n_iter,
                    n_kept_samples |-> n_kept_samples, group_index |-> group_index,
                    callback |-> callback, do_test |-> (dt = "True")]
           builder == Configure(self.config_builder, self.group_index, group_index,
                                NFeatures, n_iter, n_kept_samples)
       IN /\ call' = args
          /\ IF dt = "raise"
             THEN /\ FitRaises(HeldOutError)
                  /\ pbar' = NoPbar
                  /\ self' = self
             ELSE IF ~GroupIndexAccepted(self.group_index, NFeatures)
             THEN /\ FitRaises(GroupIndexError)
                  /\ pbar' = NoPbar
                  /\ self' = self
             ELSE IF ~BuildAccepts(builder)
             THEN /\ FitRaises(ConfigError)
                  /\ pbar' = NoPbar
                  /\ self' = [self EXCEPT !.config_builder = builder]
             ELSE IF OpensPbar(callback) /\ dt = "True" /\ ~HeldOutConverts(X_test)
             THEN /\ FitRaises(ConversionError)
                  /\ pbar' = [state |-> "open", n |-> 0]
                  /\ self' = [self EXCEPT !.config_builder = builder]
             ELSE /\ pc' = "training"
                  /\ trainer' = StartTrainer(Build(builder), SeedOf(self))
                  /\ pbar' = IF OpensPbar(callback)
                             THEN [state |-> "open", n |-> 0] ELSE NoPbar
                  /\ self' = [self EXCEPT !.config_builder = builder]
                  /\ result' = NoResult
    /\ UNCHANGED <<trained_with, keep_first, prediction_1, prediction_2>>

\* What a caller's callback answers at its k-th call
UserCallbackAnswer(cb, k) ==
    IF cb.raise_at = k THEN "raise"
    ELSE IF cb.stop_at = k THEN "True"
    ELSE "False"

\* The callback fit defines when none is given, called with iteration index i:
\* every LogEvery-th call scores the held-out data, which raises when its
\* column count differs from that of the training data
DefaultCallbackAnswer(i, dt, X_test) ==
    IF i % LogEvery # 0 THEN "False"
    ELSE IF dt /\ X_test = "wrong_shape" THEN "raise"
    ELSE "False"

\* CallbackAnswer, were fit to install its own callback whatever it is given
CallbackAnswer_always_default(c, i) == DefaultCallbackAnswer(i, c.do_test, c.X_test)

\* The callback create_train_fm is given, called with iteration index i
CallbackAnswer(c, i) ==
    IF c.callback = None
    THEN DefaultCallbackAnswer(i, c.do_test, c.X_test)
    ELSE UserCallbackAnswer(c.callback[1], i + 1)

\* The trainer keeps the sample of iteration index i when it is one of the
\* last n_kept_samples iterations
KeepsSample(config, i) == i >= config.n_iter - config.n_kept_samples

\* create_train_fm, one iteration: the sampling step (which may fail on a
\* non-finite value), the sample kept or not, and the callback
TrainerIterate(numeric_failure) ==
    /\ pc = "training"
    /\ trainer.status = "running"
    /\ LET i == trainer.iter
           r == NextRng(trainer.rng)
           answer == CallbackAnswer(call, i)
           kept == /\ KeepsSample(trainer.config, i)
                   /\ (keep_first \/ answer = "False")
       IN IF numeric_failure
          THEN /\ trainer' = [trainer EXCEPT !.status = "raised", !.err = NumericError]
               /\ pbar' = pbar
          ELSE /\ trainer' =
                    [trainer EXCEPT
                       !.rng = r,
                       !.iter = i + 1,
                       !.cb_calls = @ + 1,
                       !.fms = IF kept THEN Append(@, DrawFM(r)) ELSE @,
                       !.hypers = IF kept
                                  THEN Append(@, DrawHyper(trainer.config.task_type, r))
                                  ELSE @,
                       !.kept_at = IF kept THEN Append(@, i) ELSE @,
                       !.err = IF answer = "raise" THEN CallbackError ELSE "",
                       !.status = IF answer = "raise" THEN "raised"
                                  ELSE IF answer = "True" \/ i + 1 = trainer.config.n_iter
                                  THEN "done" ELSE "running"]
               /\ pbar' = IF call.callback = None
                          THEN [pbar EXCEPT !.n = @ + 1] ELSE pbar
    /\ UNCHANGED <<pc, self, call, result, trained_with, keep_first,
                   prediction_1, prediction_2>>

\* The inputs of a training run, as its caller gave them
TrainingInputs(obj, c) ==
    [rank |-> obj.rank, random_seed |-> obj.random_seed,
     group_index |-> obj.group_index, options |-> obj.config_builder.options,
     n_iter |-> c.n_iter, n_kept_samples |-> c.n_kept_samples,
     stop_at |-> IF c.callback = None THEN 0 ELSE c.callback[1].stop_at]

\* StoreEnsemble, were the samples to reach the instance whatever the outcome
StoreEnsemble_always(obj, t) == [obj EXCEPT !.fms_ = t.fms, !.hypers_ = t.hypers]

\* fit: the assignment of the trainer's result to the instance
StoreEnsemble(obj, t) ==
    IF t.status = "done"
    THEN [obj EXCEPT !.fms_ = t.fms, !.hypers_ = t.hypers]
    ELSE obj

\* fit, the finally clause
ClosePbar(bar) == IF bar.state # "None" THEN [bar EXCEPT !.state = "closed"] ELSE bar

\* MyFMRegressor.fit, from the return of create_train_fm to its own return
FitExit ==
    /\ pc = "training"
    /\ trainer.status \in {"done", "raised"}
    /\ self' = StoreEnsemble(self, trainer)
    /\ pbar' = ClosePbar(pbar)
    /\ result' = [NoResult EXCEPT !.op = "fit", !.err = trainer.err]
    /\ trained_with' = IF trainer.status = "done"
                       THEN Some(TrainingInputs(self, call))
                       ELSE trained_with
    /\ pc' = "returning"
    /\ UNCHANGED <<call, trainer, keep_first, prediction_1, prediction_2>>

\* fit hands over to its caller: its arguments and locals are gone
FitReturn ==
    /\ pc = "returning"
    /\ pc' = "idle"
    /\ call' = NoCall
    /\ pbar' = NoPbar
    /\ trainer' = NoTrainer
    /\ UNCHANGED <<self, result, trained_with, keep_first, prediction_1, prediction_2>>

\* ------------------------------------------------------------ prediction
Rows == [1..NFeatures -> 0..MaxFeatureValue]
\* the inputs of the life-cycle specification: single rows
OneRowInputs == {<<x>> : x \in {[j \in 1..NFeatures |-> 1],
                                 [j \in 1..NFeatures |-> IF j = 1 THEN MaxFeatureValue ELSE 0]}}

\* a call of predict
Predict(X) ==
    /\ pc = "idle"
    /\ self.cls # "MyFMOrderedProbit"
    /\ LET r == predict(self, X)
       IN result' = [op |-> "predict", err |-> r.err, value |-> r.value, args |-> X]
    /\ UNCHANGED <<pc, self, call, pbar, trainer, trained_with, keep_first,
                   prediction_1, prediction_2>>

\* a call of predict_proba (the regressor has none)
PredictProba(X) ==
    /\ pc = "idle"
    /\ self.cls # "MyFMRegressor"
    /\ LET r == predict_proba(self, X)
       IN result' = [op |-> "predict_proba", err |-> r.err, value |-> r.value, args |-> X]
    /\ UNCHANGED <<pc, self, call, pbar, trainer, trained_with, keep_first,
                   prediction_1, prediction_2>>

\* The calls of fit: every held-out pair with and without a callback, every
\* schedule with every callback, and the group_index argument
FitArgs ==
    {[X_test |-> xt, y_test |-> yt, n_iter |-> MaxIter, n_kept_samples |-> 1,
      group_index |-> None, callback |-> cb] :
        xt \in XTests, yt \in YTests,
        cb \in {None, Some([stop_at |-> 0, raise_at |-> 0])}}
    \cup
    {a \in [X_test : {"None"}, y_test : {"None"}, n_iter : 1..MaxIter,
             n_kept_samples : 0..(MaxIter + 1), group_index : {None},
             callback : Callbacks] :
        /\ a.n_kept_samples <= a.n_iter + 1
        /\ a.callback # None =>
              /\ a.callback[1].stop_at <= a.n_iter
              /\ a.callback[1].raise_at <= a.n_iter}
    \cup
    {[X_test |-> "None", y_test |-> "None", n_iter |-> MaxIter, n_kept_samples |-> 1,
      group_index |-> Some(gi), callback |-> None] : gi \in GroupIndices}

Next ==
    \/ \E cls \in Classes, seed \in Seeds, options \in OptionSets, gi \in GroupIndices :
          New(cls, seed, options, gi)
    \/ \E a \in FitArgs :
          FitEnter(a.X_test, a.y_test, a.n_iter, a.n_kept_samples, a.group_index, a.callback)
    \/ \E numeric_failure \in BOOLEAN : TrainerIterate(numeric_failure)
    \/ FitExit
    \/ FitReturn
    \/ \E X \in OneRowInputs : Predict(X)
    \/ \E X \in OneRowInputs : PredictProba(X)

Spec == Init /\ [][Next]_vars

\* ------------------------------------------- the prediction specification
\* The ensemble a training run leaves: n consecutive draws of the generator.
RECURSIVE RngAfter(_, _)
RngAfter(r, k) == IF k = 0 THEN r ELSE NextRng(RngAfter(r, k - 1))

TrainedInstance(cls, r, n) ==
    [cls |-> cls, rank |-> Rank, random_seed |-> DefaultSeed, group_index |-> None,
     config_builder |-> [task_type |-> TaskTypeOf(cls), options |-> {}, groups |-> <<>>,
                         n_iter |-> 0, n_kept_samples |-> 0],
     fms_ |-> [k \in 1..n |-> DrawFM(RngAfter(r, k))],
     hypers_ |-> [k \in 1..n |-> DrawHyper(TaskTypeOf(cls), RngAfter(r, k))]]

\* prediction inputs of one row and of two rows
PredictInputs ==
    {<<x>> : x \in Rows} \cup {<<x, [j \in 1..NFeatures |-> 1]>> : x \in Rows}

InitPredict ==
    /\ pc = "idle"
    /\ \E cls \in Classes \cup {"MyFMOrderedProbit"}, r \in 0..(RngMod - 1),
          n \in 0..MaxSamples : self = TrainedInstance(cls, r, n)
    /\ call = NoCall
    /\ pbar = NoPbar
    /\ trainer = NoTrainer
    /\ \E X \in PredictInputs : result = [NoResult EXCEPT !.args = X]
    /\ trained_with = None
    /\ keep_first = TRUE
    /\ prediction_1 = <<>>
    /\ prediction_2 = <<>>

\* the prediction the pickling test compares: predict for regression,
\* predict_proba otherwise
TestedPrediction(obj, X) ==
    IF obj.cls = "MyFMRegressor" THEN predict(obj, X) ELSE predict_proba(obj, X)

\* TestAll.test_main, "test pickling": predict, dump, load, predict again
TestPickling(X) ==
    /\ pc = "idle"
    /\ LET fm_recovered == Loads(Dumps(PickledAttributes(self)))
       IN /\ prediction_1' = TestedPrediction(self, X)
          /\ prediction_2' = TestedPrediction(fm_recovered, X)
    /\ result' = [NoResult EXCEPT !.op = "test_pickling", !.args = X]
    /\ UNCHANGED <<pc, self, call, pbar, trainer, trained_with, keep_first>>

\* the operations, applied to the input drawn at the start
NextPredict ==
    \/ Predict(result.args)
    \/ PredictProba(result.args)
    \/ TestPickling(result.args)

SpecPredict == InitPredict /\ [][NextPredict]_vars

\* ================================================================== claims
\* the fit that is handing over was given one half of the held-out pair
HalfHeldOut == (call.X_test = "None") # (call.y_test = "None")

\* create_train_fm was not called: no iteration ran and no callback was called
TrainerNeverInvoked ==
    /\ trainer.status = "none"
    /\ trainer.iter = 0
    /\ trainer.cb_calls = 0
    /\ pbar.n = 0

\* C2: fit fails when exactly one of X_test and y_test is given, before the
\* trainer is invoked (no iteration, no call of the callback), and does not
\* fail on this check when both or neither are given.
C2_HeldOutPair ==
    /\ pc = "training" => ~HalfHeldOut
    /\ pc = "returning" =>
         /\ HalfHeldOut => (result.err = HeldOutError /\ TrainerNeverInvoked)
         /\ ~HalfHeldOut => result.err # HeldOutError

C2_Witness ==
    /\ pc = "returning"
    /\ call.X_test = "matrix"
    /\ call.y_test = "None"
    /\ call.callback # None
    /\ result.err = HeldOutError

\* C3: no execution of fit returns or raises with an opened progress bar left
\* unclosed.
C3_PbarReleased == pc = "returning" => pbar.state # "open"

\* the call or the instance carries a group index of the wrong length, or more
\* samples are to be kept than iterations run
Misconfigured ==
    \/ self.group_index # None /\ Len(self.group_index[1]) # NFeatures
    \/ call.group_index # None /\ Len(call.group_index[1]) # NFeatures
    \/ call.n_kept_samples > call.n_iter

\* C4: an unknown option name makes the constructor fail; a group index whose
\* length differs from the feature count, and n_kept_samples > n_iter, make fit
\* fail before the trainer runs an iteration or the callback is called.
C4_ConfigErrorsEager ==
    /\ (result.op = "__init__" /\ UnknownOptions(result.args) # {}) => pc = "ctor_failed"
    /\ pc = "training" => ~Misconfigured
    /\ (pc = "returning" /\ Misconfigured) => (result.err # "" /\ TrainerNeverInvoked)

\* the callback of the running fit answers True at its k-th call
StopsAt(k) ==
    /\ call.callback # None
    /\ call.callback[1].stop_at = k
    /\ k >= 1
    /\ k <= call.n_iter

\* C5: the callback is called once after each full iteration; when it first
\* returns True at its k-th call, the run makes exactly k iterations, calls it
\* no further, is done, and yields at most k samples.
C5_EarlyStop ==
    pc \in {"training", "returning"} /\ trainer.status # "none" =>
        /\ trainer.cb_calls = trainer.iter
        /\ \A k \in 1..MaxIter : StopsAt(k) =>
             /\ trainer.iter <= k
             /\ trainer.cb_calls <= k
             /\ trainer.iter = k => trainer.status = "done"
             /\ trainer.status = "done" =>
                  /\ trainer.iter = k
                  /\ trainer.cb_calls = k
                  /\ Len(trainer.fms) <= k
             /\ (pc = "returning" /\ result.err = "") =>
                  (Len(self.fms_) <= k /\ Len(self.hypers_) <= k)

C5_Witness ==
    /\ pc = "returning"
    /\ StopsAt(MaxIter)
    /\ result.err = ""
    /\ trainer.iter = MaxIter
    /\ Len(self.fms_) >= 2

\* the callback of the running fit never asks to stop
NeverStops == call.callback = None \/ call.callback[1].stop_at = 0

Max(a, b) == IF a > b THEN a ELSE b

\* C6: samples are appended only during the last n_kept_samples iterations, in
\* sampling order; a run that is not stopped early ends with exactly
\* n_kept_samples pairs, and at every state the ensemble is no longer than the
\* number of iterations completed after the burn-in.
C6_BurnIn ==
    pc \in {"training", "returning"} /\ trainer.status # "none" =>
        LET burn_in == call.n_iter - call.n_kept_samples
        IN /\ Len(trainer.fms) = Len(trainer.hypers)
           /\ Len(trainer.fms) = Len(trainer.kept_at)
           /\ Len(trainer.fms) <= Max(0, trainer.iter - burn_in)
           /\ \A j \in 1..Len(trainer.kept_at) :
                /\ trainer.kept_at[j] >= burn_in
                /\ j > 1 => trainer.kept_at[j] = trainer.kept_at[j - 1] + 1
           /\ (NeverStops /\ trainer.status = "done") =>
                Len(trainer.fms) = call.n_kept_samples
           /\ (NeverStops /\ pc = "returning" /\ result.err = "") =>
                /\ Len(self.fms_) = call.n_kept_samples
                /\ Len(self.hypers_) = call.n_kept_samples
                /\ trainer.kept_at = [j \in 1..call.n_kept_samples |-> burn_in + j - 1]

C6_Witness ==
    /\ pc = "returning"
    /\ NeverStops
    /\ result.err = ""
    /\ call.n_iter = MaxIter
    /\ call.n_kept_samples = 2
    /\ Len(self.fms_) = 2

C10_FailedFitKeepsEnsemble ==
    [][(self'.fms_ # self.fms_ \/ self'.hypers_ # self.hypers_) =>
         /\ pc = "training"
         /\ pc' = "returning"
         /\ trainer.status = "done"
         /\ result'.err = ""
         /\ self'.fms_ = trainer.fms
         /\ self'.hypers_ = trainer.hypers]_vars

C10_Witness ==
    /\ pc = "returning"
    /\ result.err = CallbackError
    /\ Len(trainer.fms) >= 1
    /\ Len(self.fms_) >= 2
    /\ self.fms_ # trainer.fms

\* C1: a prediction made while the stored ensemble is empty fails with the
\* "no available sample" error and yields no value.
C1_EmptyEnsemble ==
    (/\ result.op \in {"predict", "predict_proba"}
     /\ Len(self.fms_) = 0)
    => (result.err = NoSample /\ result.value = <<>>)

C1_Witness ==
    /\ result.op = "predict_proba"
    /\ result.err = NoSample
    /\ trained_with # None
    /\ trained_with[1].stop_at >= 1

SampleProbability(k, x) ==
    ErfUnit + Erf(RawScore(self.fms_[k], x, elem_wise_square(x))
                  * SqrtHalf(self.hypers_[k].alpha))

\* the sum of the probabilities of all samples for row x
ProbabilitySum(x) ==
    SumTo([k \in 1..Len(self.fms_) |-> SampleProbability(k, x)], Len(self.fms_))

\* C9: for a classifier with a non-empty ensemble, predict_proba gives for
\* every row the arithmetic mean of the samples' probabilities, which lies in
\* [0, 1], and predict gives the label of that mean thresholded at 0.5.
C9_ClassifierMean ==
    (/\ self.cls = "MyFMClassifier"
     /\ Len(self.fms_) > 0
     /\ result.op \in {"predict", "predict_proba"})
    => /\ result.err = ""
       /\ Len(result.value) = Len(result.args)
       /\ \A i \in 1..Len(result.args) :
            LET n == Len(self.fms_)
                total == ProbabilitySum(result.args[i])
            IN /\ 0 <= total
               /\ total <= n * 2 * ErfUnit
               /\ result.op = "predict_proba" => result.value[i] = <<total, n>>
               /\ result.op = "predict" => result.value[i] = (2 * total > n * 2 * ErfUnit)

C9_Witness ==
    /\ self.cls = "MyFMClassifier"
    /\ Len(self.fms_) >= 2
    /\ self.hypers_[1].alpha # self.hypers_[2].alpha
    /\ result.op = "predict_proba"
    /\ Len(result.args) = 2
    /\ result.value[1][1] \notin {0, ErfUnit * Len(self.fms_), 2 * ErfUnit * Len(self.fms_)}
    /\ result.value[1] # result.value[2]

====
